---- MODULE Spec2Model ----
(***************************************************************************)
(* Model of src/app.py: the Monte Carlo capital simulation `simulate`, the   *)
(* percentile curves and zero-crossing years computed from its result, and   *)
(* the index arithmetic of the value labels placed on the chart.             *)
(*                                                                           *)
(* Amounts are euros.  The inputs are drawn from sets on which every         *)
(* floating-point operation of the source is exact in the integers: ramp     *)
(* end points differ by a multiple of (number of months - 1), the inflation  *)
(* rate and the returns are whole numbers (1 = 100%).  Percentile values     *)
(* are held multiplied by PctScale.  Python indices are 0-based; a TLA+      *)
(* sequence holds python index i at position i + 1.                          *)
(***************************************************************************)
EXTENDS Integers, Sequences, FiniteSets, TLC

VARIABLES
    pc,                 \* position in the script / in simulate
    start_capital, monthly_start, monthly_end, years_build, spend_schedule,
    annual_return_mean, annual_return_std, inflation, n_scenarios,
    yearly_contribs, yearly_spends, withdrawals, total_years,
    results,            \* the n_scenarios x total_years matrix
    s, year,            \* loop indices of simulate (0-based, next to run)
    capital, contrib, withdraw,
    curves, zero_years,
    start_age, phase_years, pension_year, reads

inputs == <<start_capital, monthly_start, monthly_end, years_build, spend_schedule,
            annual_return_mean, annual_return_std, inflation, n_scenarios>>
schedule == <<yearly_contribs, yearly_spends, withdrawals, total_years>>
locals == <<s, year, capital, contrib, withdraw>>
summary == <<curves, zero_years>>
ui == <<start_age, phase_years, pension_year, reads>>
vars == <<pc, inputs, schedule, results, locals, summary, ui>>

\* ---------------------------------------------------------------- bounds
MaxYearsBuild == 2
MaxPhaseYears == 2
MaxScenarios == 2

\* ------------------------------------------------------- input domains
\* Standard-normal deviates z the random source may return; a draw of
\* rng.normal(mean, std) is mean + std * z.
Deviates == {-2, 1}
Capitals == {0, 10000}
Monthlies == {0, 300}
Slopes == {0, 1}
Means == {0, 1}
Stds == {-1, 0, 1}
\* (mean, std) pairs: the randomly drawn runs are centred on a mean of 0.
ReturnModels == {rm \in Means \X Stds : rm[2] > 0 => rm[1] = 0}
Inflations == {0, 1}

\* Ramp end points for a ramp of `years` years starting at `a`: exact under
\* linear interpolation over 12 * years points.  A ramp from 0 is flat.
RampEnds(a, years) ==
    IF years >= 1 /\ a > 0 THEN {a + d * (12 * years - 1) : d \in Slopes} ELSE {a}

\* Withdrawal phases: a flat 300 a month (over -1 and 0 years too), or a ramp
\* that rises from 0 by one euro a month.
Blocks ==
    {[years |-> y, start |-> 300, end |-> 300] : y \in -1..MaxPhaseYears}
        \cup {[years |-> y, start |-> 0, end |-> 12 * y - 1] : y \in 1..MaxPhaseYears}

\* No phase, one phase, or two one-year phases.
Schedules ==
    {<<>>} \cup {<<b>> : b \in Blocks}
           \cup {<<b1, b2>> : b1 \in {b \in Blocks : b.years = 1},
                              b2 \in {b \in Blocks : b.years = 1 /\ b.start = 300}}

\* ------------------------------------------------------------- helpers
RECURSIVE Pow(_, _)
Pow(b, e) == IF e <= 0 THEN 1 ELSE b * Pow(b, e - 1)

RECURSIVE SumSeq(_)
SumSeq(q) == IF q = <<>> THEN 0 ELSE Head(q) + SumSeq(Tail(q))

\* np.linspace(a, b, num): num evenly spaced points, end points included.
Linspace(a, b, num) ==
    [m \in 1..num |-> IF num = 1 THEN a ELSE a + ((m - 1) * (b - a)) \div (num - 1)]

\* Mutation of Nominal: the first year is already inflated once.
NominalFromYearOne(vals, infl, offset) ==
    [m \in 1..Len(vals) |-> vals[m] * Pow(1 + infl, offset + (m - 1) \div 12 + 1)]
\* [vals[m] * (1+inflation)**(offset + m//12) for m in range(len(vals))]
Nominal(vals, infl, offset) ==
    [m \in 1..Len(vals) |-> vals[m] * Pow(1 + infl, offset + (m - 1) \div 12)]

\* Mutation of YearlySums: the last year is left out.
YearlySumsShort(nom, years) ==
    [i \in 1..(years - 1) |-> SumSeq(SubSeq(nom, (i - 1) * 12 + 1, i * 12))]
\* [sum(nom[i*12:(i+1)*12]) for i in range(years)]
YearlySums(nom, years) ==
    [i \in 1..years |-> SumSeq(SubSeq(nom, (i - 1) * 12 + 1, i * 12))]

YearlyContribs(ms, me, yb, infl) ==
    YearlySums(Nominal(Linspace(ms, me, yb * 12), infl, 0), yb)

BlockSpends(block, yb, infl) ==
    YearlySums(Nominal(Linspace(block.start, block.end, block.years * 12), infl, yb),
               block.years)

RECURSIVE YearlySpends(_, _, _)
YearlySpends(sched, yb, infl) ==
    IF sched = <<>> THEN <<>>
    ELSE BlockSpends(Head(sched), yb, infl) \o YearlySpends(Tail(sched), yb, infl)

Zeros(n) == [i \in 1..n |-> 0]

\* Mutation of Withdrawals: the accumulation years are not padded with zeros.
WithdrawalsUnpadded(yb, spends) == spends
\* withdrawals = [0]*years_build + yearly_spends
Withdrawals(yb, spends) == Zeros(yb) \o spends

\* Mutation of Update: the withdrawal is added instead of subtracted.
UpdateSignSlip(cap, r, c, w) == cap * (1 + r) + c + w
\* capital * (1+r) + contrib - withdraw
Update(cap, r, c, w) == cap * (1 + r) + c - w

\* Mutation of Clamp: no floor.
ClampOff(c) == c
\* if capital < 0: capital = 0
Clamp(c) == IF c < 0 THEN 0 ELSE c

\* ------------------------------------------------------------- summary
percentiles == <<10, 20, 50, 80, 90>>
PctScale == 100
PctSet == {percentiles[k] : k \in 1..Len(percentiles)}

Column(m, t) == [i \in 1..Len(m) |-> m[i][t]]

\* Interpolation between the order statistics `sorted` at percentile p,
\* multiplied by PctScale: position p/100 * (n-1), 0-based.
Interpolate(sorted, p) ==
    LET pos == p * (Len(sorted) - 1)
        lo == pos \div PctScale
        frac == pos % PctScale
    IN  IF frac = 0 THEN PctScale * sorted[lo + 1]
        ELSE PctScale * sorted[lo + 1] + frac * (sorted[lo + 2] - sorted[lo + 1])

\* Mutation of Percentile: the column is not sorted.
PercentileUnsorted(col, p) == Interpolate(col, p)
\* np.percentile(column, p), linear interpolation (numpy's default method).
Percentile(col, p) == Interpolate(SortSeq(col, LAMBDA a, b : a < b), p)

\* {p: np.percentile(results, p, axis=0) for p in percentiles}
Curves(m, ncols) ==
    [p \in PctSet |-> [t \in 1..ncols |-> Percentile(Column(m, t), p)]]

SetMin(S) == CHOOSE x \in S : \A y \in S : x <= y

\* idx = np.where(series <= 0)[0]; idx[0]+1 if len(idx) > 0 else None.
\* None is the empty set, a year k is {k}.
ZeroYear(series) ==
    LET idx == {t - 1 : t \in {u \in 1..Len(series) : series[u] <= 0}}
    IN  IF idx # {} THEN {SetMin(idx) + 1} ELSE {}

\* np.linspace raises ValueError for a negative number of samples.
LinspaceRaises(sched, yb) ==
    \/ yb < 0
    \/ \E k \in 1..Len(sched) : sched[k].years < 0

\* ---------------------------------------------------------------- Init
NoUi ==
    /\ start_age = 0
    /\ phase_years = <<>>
    /\ pension_year = 0
    /\ reads = {}

Init ==
    /\ pc = "build"
    /\ start_capital \in Capitals
    /\ monthly_start \in Monthlies
    /\ years_build \in -1..MaxYearsBuild
    /\ monthly_end \in RampEnds(monthly_start, years_build)
    /\ spend_schedule \in Schedules
    /\ \E rm \in ReturnModels :
        /\ annual_return_mean = rm[1]
        /\ annual_return_std = rm[2]
    /\ inflation \in Inflations
    /\ n_scenarios \in -1..MaxScenarios
    /\ yearly_contribs = <<>>
    /\ yearly_spends = <<>>
    /\ withdrawals = <<>>
    /\ total_years = 0
    /\ results = <<>>
    /\ s = 0
    /\ year = 0
    /\ capital = 0
    /\ contrib = 0
    /\ withdraw = 0
    /\ curves = <<>>
    /\ zero_years = <<>>
    /\ NoUi

\* ------------------------------------------------------------- simulate
\* Lines 13-25: the nominal yearly cash flows.
BuildSchedule ==
    /\ pc = "build"
    /\ IF LinspaceRaises(spend_schedule, years_build)
       THEN /\ pc' = "error"
            /\ UNCHANGED schedule
       ELSE /\ yearly_contribs' =
                  YearlyContribs(monthly_start, monthly_end, years_build, inflation)
            /\ yearly_spends' = YearlySpends(spend_schedule, years_build, inflation)
            /\ withdrawals' = Withdrawals(years_build, yearly_spends')
            /\ total_years' = years_build + Len(yearly_spends')
            /\ pc' = "alloc"
    /\ UNCHANGED <<inputs, results, locals, summary, ui>>

\* Lines 28-29: results = np.zeros((n_scenarios, total_years)); np.zeros raises
\* ValueError for a negative dimension.
Allocate ==
    /\ pc = "alloc"
    /\ IF n_scenarios < 0
       THEN /\ pc' = "error"
            /\ UNCHANGED results
       ELSE /\ results' = [i \in 1..n_scenarios |-> Zeros(total_years)]
            /\ pc' = "scenarios"
    /\ UNCHANGED <<inputs, schedule, locals, summary, ui>>

\* Lines 30-31: the next scenario starts from start_capital.
BeginScenario ==
    /\ pc = "scenarios"
    /\ s < n_scenarios
    /\ capital' = start_capital
    /\ year' = 0
    /\ pc' = "years"
    /\ UNCHANGED <<inputs, schedule, results, s, contrib, withdraw, summary, ui>>

\* Lines 32-39: one year of one scenario.  rng.normal raises ValueError for a
\* negative scale.
YearStep ==
    /\ pc = "years"
    /\ year < total_years
    /\ IF annual_return_std < 0
       THEN /\ pc' = "error"
            /\ UNCHANGED <<results, locals>>
       ELSE \E z \in Deviates :
            LET r == annual_return_mean + annual_return_std * z
                c == IF year < years_build THEN yearly_contribs[year + 1] ELSE 0
                w == IF year < Len(withdrawals) THEN withdrawals[year + 1] ELSE 0
                cap == Clamp(Update(capital, r, c, w))
            IN  /\ contrib' = c
                /\ withdraw' = w
                /\ capital' = cap
                /\ results' = [results EXCEPT ![s + 1][year + 1] = cap]
                /\ year' = year + 1
                /\ UNCHANGED <<pc, s>>
    /\ UNCHANGED <<inputs, schedule, summary, ui>>

\* Line 32 exhausted: on to the next scenario.
EndScenario ==
    /\ pc = "years"
    /\ year >= total_years
    /\ s' = s + 1
    /\ pc' = "scenarios"
    /\ UNCHANGED <<inputs, schedule, results, year, capital, contrib, withdraw,
                   summary, ui>>

\* Line 41: return results, withdrawals.
Return ==
    /\ pc = "scenarios"
    /\ s >= n_scenarios
    /\ pc' = "returned"
    /\ UNCHANGED <<inputs, schedule, results, locals, summary, ui>>

\* Lines 75-77: the percentile curves of the returned matrix.
ComputeCurves ==
    /\ pc = "returned"
    /\ n_scenarios >= 1
    /\ curves' = Curves(results, total_years)
    /\ pc' = "curves"
    /\ UNCHANGED <<inputs, schedule, results, locals, zero_years, ui>>

\* Lines 79-84: the first year each curve is at or below zero.
ComputeZeroYears ==
    /\ pc = "curves"
    /\ zero_years' = [p \in PctSet |-> ZeroYear(curves[p])]
    /\ pc' = "done"
    /\ UNCHANGED <<inputs, schedule, results, locals, curves, ui>>

Next == BuildSchedule \/ Allocate \/ BeginScenario \/ YearStep \/ EndScenario \/ Return
            \/ ComputeCurves \/ ComputeZeroYears

Spec == Init /\ [][Next]_vars

\* ------------------------------------------------- the script's controls
\* Slider ranges of the page, sampled every SliderStep years from the low end
\* (both ends of each range are always kept).
SliderStep == 10
StartAgeMin == 18
StartAgeMax == 50
pension_age == 70
YearsBuildMin == 1
YearsBuildMax == 40
PhaseYearsMax == 40
NumPhases == 3
PhaseAmountDefault == 3000

Sampled(lo, hi) == {v \in lo..hi : (v - lo) % SliderStep = 0 \/ v = hi}

\* Lines 62-69: a phase with years > 0 is appended, others are dropped.
RECURSIVE CollectSchedule(_)
CollectSchedule(ys) ==
    IF ys = <<>> THEN <<>>
    ELSE (IF Head(ys) > 0
          THEN <<[years |-> Head(ys), start |-> PhaseAmountDefault,
                  end |-> PhaseAmountDefault]>>
          ELSE <<>>) \o CollectSchedule(Tail(ys))

\* Lines 19-25: each block extends yearly_spends by block["years"] entries.
RECURSIVE SpendYears(_)
SpendYears(sched) ==
    IF sched = <<>> THEN 0 ELSE Head(sched).years + SpendYears(Tail(sched))

InitUI ==
    /\ pc = "sliders"
    /\ start_age \in StartAgeMin..StartAgeMax
    /\ pension_year = pension_age - start_age
    /\ years_build \in Sampled(YearsBuildMin, YearsBuildMax)
    /\ phase_years \in [1..NumPhases -> Sampled(0, PhaseYearsMax)]
    /\ reads = {}
    /\ spend_schedule = <<>>
    /\ start_capital = 10000
    /\ monthly_start = 300
    /\ monthly_end = 800
    /\ annual_return_mean = 0
    /\ annual_return_std = 0
    /\ inflation = 0
    /\ n_scenarios = 1
    /\ yearly_contribs = <<>>
    /\ yearly_spends = <<>>
    /\ withdrawals = <<>>
    /\ total_years = 0
    /\ results = <<>>
    /\ s = 0
    /\ year = 0
    /\ capital = 0
    /\ contrib = 0
    /\ withdraw = 0
    /\ curves = <<>>
    /\ zero_years = <<>>

\* Lines 60-69: the withdrawal phases read from the controls.
CollectPhases ==
    /\ pc = "sliders"
    /\ spend_schedule' = CollectSchedule(phase_years)
    /\ pc' = "simulate"
    /\ UNCHANGED <<start_capital, monthly_start, monthly_end, years_build,
                   annual_return_mean, annual_return_std, inflation, n_scenarios,
                   schedule, results, locals, summary, ui>>

\* Lines 72-77: simulate and the percentile curves, by their shape only:
\* every curve has total_years entries.
RunSimulation ==
    /\ pc = "simulate"
    /\ total_years' = years_build + SpendYears(spend_schedule)
    /\ pc' = "label_build"
    /\ UNCHANGED <<inputs, yearly_contribs, yearly_spends, withdrawals, results,
                   locals, summary, ui>>

\* Lines 92-99: every curve is read at index years_build for its label.
LabelEndOfBuild ==
    /\ pc = "label_build"
    /\ reads' = reads \cup {years_build}
    /\ pc' = IF years_build < total_years THEN "label_pension" ELSE "IndexError"
    /\ UNCHANGED <<inputs, schedule, results, locals, summary,
                   start_age, phase_years, pension_year>>

\* Lines 108-114: inside the guard every curve is read at index pension_year.
PensionMarker ==
    /\ pc = "label_pension"
    /\ IF 0 < pension_year /\ pension_year <= total_years
       THEN /\ reads' = reads \cup {pension_year}
            /\ pc' = IF pension_year < total_years THEN "shown" ELSE "IndexError"
       ELSE /\ reads' = reads
            /\ pc' = "shown"
    /\ UNCHANGED <<inputs, schedule, results, locals, summary,
                   start_age, phase_years, pension_year>>

NextUI == CollectPhases \/ RunSimulation \/ LabelEndOfBuild \/ PensionMarker

SpecUI == InitUI /\ [][NextUI]_vars

\* ------------------------------------------------------------ properties
Max0(x) == IF x < 0 THEN 0 ELSE x

\* Cell (i, t) of results (positions, python index + 1) has been recorded.
Written(i, t) ==
    /\ i \in 1..Len(results)
    /\ t \in 1..total_years
    /\ \/ i <= s
       \/ i = s + 1 /\ pc = "years" /\ t <= year

Returned == pc \in {"returned", "curves", "done"}

\* The scheduled cash flows of year position u, as the specification words them.
CashIn(u) == IF u <= years_build THEN yearly_contribs[u] ELSE 0
CashOut(u) == IF u > years_build THEN yearly_spends[u - years_build] ELSE 0

RECURSIVE NetFlow(_)
NetFlow(t) == IF t <= 0 THEN 0 ELSE CashIn(t) - CashOut(t) + NetFlow(t - 1)

ValidInput ==
    /\ years_build >= 1
    /\ \A k \in 1..Len(spend_schedule) : spend_schedule[k].years >= 1
    /\ annual_return_std >= 0
    /\ n_scenarios >= 1

\* C1: every value of the result matrix is >= 0, whatever returns were drawn
\* (returns below -100% included) and whatever cash flows are scheduled.
C1_FloorInvariant ==
    \A i \in 1..Len(results) : \A t \in 1..Len(results[i]) : results[i][t] >= 0

\* A scenario whose capital was positive, with no cash flow in the next year,
\* and whose return of -200% was floored to 0.
C1_Witness ==
    /\ annual_return_mean = 0
    /\ annual_return_std = 1
    /\ \E i \in 1..Len(results) : \E t \in 2..total_years :
        /\ Written(i, t)
        /\ results[i][t - 1] > 0
        /\ results[i][t] = 0
        /\ CashIn(t) = 0
        /\ CashOut(t) = 0

\* C2: once a scenario's recorded capital is 0 it is 0 in every later year unless
\* a positive contribution is scheduled in between; a scenario at 0 in the last
\* accumulation year or later stays at 0 to the end of the horizon.
C2_ZeroAbsorbing ==
    \A i \in 1..Len(results) : \A t \in 1..total_years : \A t2 \in 1..total_years :
        (/\ t < t2
         /\ Written(i, t)
         /\ Written(i, t2)
         /\ results[i][t] = 0
         /\ \/ \A u \in (t + 1)..t2 : CashIn(u) = 0
            \/ t >= years_build)
        => results[i][t2] = 0

\* A finished run with random returns in which a scenario fell from a positive
\* capital to 0 after the accumulation and was recorded at 0 two years later.
C2_Witness ==
    /\ pc = "done"
    /\ annual_return_std = 1
    /\ \E i \in 1..Len(results) : \E t \in 2..(total_years - 2) :
        /\ t >= years_build
        /\ results[i][t - 1] > 0
        /\ results[i][t] = 0
        /\ results[i][t + 2] = 0
    /\ \E i \in 1..Len(results) : \E t \in 1..(total_years - 1) :
        /\ results[i][t] = 0
        /\ results[i][t + 1] > 0

\* C3: with mean 0 and standard deviation 0 every recorded value equals
\* max(0, start_capital + cumulative contributions - cumulative withdrawals);
\* 10000 with a flat 300 ramp over one year, no phases, one scenario gives 13600.
C3_ZeroReturnIdentity ==
    /\ (annual_return_mean = 0 /\ annual_return_std = 0)
        => \A i \in 1..Len(results) : \A t \in 1..total_years :
              Written(i, t) => results[i][t] = Max0(start_capital + NetFlow(t))
    /\ (/\ Returned
        /\ start_capital = 10000
        /\ monthly_start = 300
        /\ monthly_end = 300
        /\ years_build = 1
        /\ spend_schedule = <<>>
        /\ annual_return_mean = 0
        /\ annual_return_std = 0
        /\ n_scenarios = 1)
        => results = <<<<13600>>>>

\* The concrete scenario has returned 13600, under 100% inflation.
C3_Witness ==
    /\ Returned
    /\ start_capital = 10000
    /\ monthly_start = 300
    /\ monthly_end = 300
    /\ years_build = 1
    /\ spend_schedule = <<>>
    /\ annual_return_mean = 0
    /\ annual_return_std = 0
    /\ inflation = 1
    /\ n_scenarios = 1
    /\ results[1][1] = 13600

\* C4: the update of year t (0-based) adds the t-th contribution only for
\* t < years_build and subtracts the (t - years_build)-th annual withdrawal of the
\* concatenated phases only for t >= years_build; never both non-zero.
C4_CashFlowAlignment ==
    (pc = "years" /\ year >= 1) =>
        LET t == year - 1
        IN  /\ t < years_build => (contrib = yearly_contribs[t + 1] /\ withdraw = 0)
            /\ t >= years_build
                => (contrib = 0 /\ withdraw = yearly_spends[t - years_build + 1])
            /\ ~(contrib # 0 /\ withdraw # 0)

\* The first withdrawal year has just been applied with a positive withdrawal,
\* after an accumulation with positive contributions.
C4_Witness ==
    /\ pc = "years"
    /\ years_build >= 1
    /\ year = years_build + 1
    /\ withdraw > 0
    /\ contrib = 0
    /\ yearly_contribs[years_build] > 0

PhaseYearsSum == SpendYears(spend_schedule)
ScheduleBuilt == pc \notin {"build", "error"}
ValidSchedule ==
    /\ years_build >= 1
    /\ \A k \in 1..Len(spend_schedule) : spend_schedule[k].years >= 1

\* C5 as stated: the withdrawal sequence simulate returns has one entry per
\* phase year and total_years is years_build plus its length.
C5_Original ==
    (ScheduleBuilt /\ ValidSchedule) =>
        /\ Len(yearly_contribs) = years_build
        /\ Len(withdrawals) = PhaseYearsSum
        /\ total_years = years_build + Len(withdrawals)

\* C5 (amended): there are years_build annual contributions and one annual
\* withdrawal figure per phase year; the returned withdrawal sequence is those
\* figures after years_build leading zeros, so its length is total_years, which
\* is years_build plus the sum of the phases' years.
C5_ScheduleLengths ==
    (ScheduleBuilt /\ ValidSchedule) =>
        /\ Len(yearly_contribs) = years_build
        /\ Len(yearly_spends) = PhaseYearsSum
        /\ total_years = years_build + PhaseYearsSum
        /\ Len(withdrawals) = total_years
        /\ \A k \in 1..years_build : withdrawals[k] = 0
        /\ SubSeq(withdrawals, years_build + 1, total_years) = yearly_spends

\* simulate has returned for a two-phase schedule after a two-year accumulation.
C5_Witness ==
    /\ Returned
    /\ years_build = 2
    /\ Len(spend_schedule) = 2
    /\ Len(withdrawals) = 4

\* First position at which a curve is at or below zero, as a 0-based index.
FirstNonPositive(series) == SetMin({u - 1 : u \in {v \in 1..Len(series) : series[v] <= 0}})
HasNonPositive(series) == \E u \in 1..Len(series) : series[u] <= 0

\* C6: for every percentile the reported zero-crossing year is the raw 0-based
\* index of the first year at which the curve is <= 0, and none if the curve is
\* > 0 in every year.
C6_ZeroCrossingRawIndex ==
    pc = "done" =>
        \A p \in PctSet :
            zero_years[p] = IF HasNonPositive(curves[p])
                            THEN {FirstNonPositive(curves[p])} ELSE {}

InvalidInput ==
    \/ years_build < 1
    \/ \E k \in 1..Len(spend_schedule) : spend_schedule[k].years < 0
    \/ annual_return_std < 0
    \/ n_scenarios <= 0

\* C7: with an invalid input the run ends in an error raised before any return
\* is drawn and before any cell is written, and no matrix is returned.
C7_FailFast ==
    InvalidInput =>
        /\ ~Returned
        /\ s = 0
        /\ year = 0
        /\ pc \in {"build", "alloc", "scenarios", "years", "error"}

\* C9: for percentiles p1 < p2 the curve of p1 is nowhere above the curve of p2.
C9_PercentileOrdering ==
    pc \in {"curves", "done"} =>
        \A p1 \in PctSet : \A p2 \in PctSet :
            p1 < p2 => \A t \in 1..total_years : curves[p1][t] <= curves[p2][t]

\* Two scenarios ended a year with different capital, the larger one first, and
\* the 10th percentile lies strictly between the two values.
C9_Witness ==
    /\ pc = "done"
    /\ n_scenarios = 2
    /\ \E t \in 1..total_years :
        /\ results[1][t] > results[2][t]
        /\ curves[10][t] > PctScale * results[2][t]
        /\ curves[10][t] < curves[90][t]
        /\ curves[90][t] < PctScale * results[1][t]

\* C10: every index used to read a percentile curve for a value label lies in
\* 0..total_years-1, for every combination of values the controls allow.
C10_LabelIndicesInBounds ==
    pc \in {"label_pension", "shown", "IndexError"} =>
        \A i \in reads : 0 <= i /\ i <= total_years - 1

====
